---------------------------- MODULE Spec2Model ----------------------------
(***************************************************************************)
(* Order-book aggregator (src/api.py): two rate-limited venue fetchers, a  *)
(* merger that concatenates the depth-limited venue books, and a greedy    *)
(* execution-price simulator, run by three worker threads.                 *)
(*                                                                         *)
(* Numbers.  Python floats are modelled in fixed point: a price or a size  *)
(* x is the integer 2*x (units of 1/2), a value size*price is therefore in *)
(* units of 1/4.  Every number of the model is a small dyadic rational, on *)
(* which IEEE double arithmetic (+, -, *, min, comparison) is exact, so    *)
(* the integer arithmetic below computes what the floats compute.          *)
(* Times are whole seconds.                                                *)
(*                                                                         *)
(* Python values.  None is NoneVal; a JSON object is a record (a key the   *)
(* object lacks is a field the record lacks); a JSON array is a sequence;  *)
(* an optional integer (depth) is <<>> for None and <<n>> for n.           *)
(***************************************************************************)
EXTENDS Integers, Sequences, FiniteSets, TLC

(***************************************************************************)
(* Bounds of the model.                                                    *)
(***************************************************************************)
\* The wall clock takes the values StartTime .. MaxTime.
MaxTime == 4
\* The depths tried are None and 0 .. MaxDepth.
MaxDepth == 2
\* A venue book of the merger and simulator inputs has at most MaxLevels
\* levels per side.
MaxLevels == 2

(***************************************************************************)
(* Python values                                                           *)
(***************************************************************************)
NoneVal == [py_none |-> TRUE]

\* bool(x) of a snapshot or book reference: None and {} are falsy.
Truthy(x) == x # NoneVal /\ DOMAIN x # {}

\* float(s): the strings the venues send, as fixed-point halves.  A string
\* outside the table is not a number: float raises ValueError.
FloatValue ==
    ("1" :> 2) @@ ("1.5" :> 3) @@ ("2" :> 4) @@
    ("99" :> 198) @@ ("99.5" :> 199) @@
    ("100" :> 200) @@ ("100.5" :> 201) @@ ("101" :> 202)

FloatRaises(s) == s \notin DOMAIN FloatValue

float(s) == FloatValue[s]

Min(a, b) == IF a <= b THEN a ELSE b

\* All sequences over S of length at most n.
SeqsUpTo(S, n) == UNION {[1..k -> S] : k \in 0..n}


(***************************************************************************)
(* OrderBook.build_internal_order_book, lines 62-93: the computation on    *)
(* the two snapshot references read under the locks.                       *)
(***************************************************************************)
\* `book.get(side) if book else []` followed by len() of it (lines 62-69):
\* a truthy book without the key gives None, and len(None) raises TypeError.
SideRaises(book, side) == Truthy(book) /\ side \notin DOMAIN book

Side(book, side) == IF Truthy(book) THEN book[side] ELSE <<>>

\* `min(self.depth, len(levels)) if self.depth else len(levels)` (lines
\* 66-69): a depth of None and a depth of 0 are both falsy.
LevelsDepth(depth, levels) ==
    IF depth # <<>> /\ depth[1] # 0
    THEN Min(depth[1], Len(levels))
    ELSE Len(levels)

\* levels[: n]
Slice(levels, n) == SubSeq(levels, 1, n)

\* Lines 75 and 83: a Coinbase level is a list, read by position.  A list
\* with fewer than two entries raises IndexError, a non-number ValueError.
CoinbaseLevelRaises(level) ==
    \/ Len(level) < 2
    \/ FloatRaises(level[1])
    \/ FloatRaises(level[2])

CoinbaseLevel(level) ==
    [price |-> float(level[1]), size |-> float(level[2]),
     exchange |-> "coinbase"]

\* Lines 79 and 87: a Gemini level is an object, read by key.  A missing
\* key raises KeyError, a non-number ValueError.
GeminiLevelRaises(level) ==
    \/ "price" \notin DOMAIN level
    \/ "amount" \notin DOMAIN level
    \/ FloatRaises(level["price"])
    \/ FloatRaises(level["amount"])

GeminiLevel(level) ==
    [price |-> float(level["price"]), size |-> float(level["amount"]),
     exchange |-> "gemini"]

\* One side's Coinbase part (loops of lines 74-76 and 82-84).
CoinbaseSide(book, side, depth) ==
    LET levels == Side(book, side)
        kept   == Slice(levels, LevelsDepth(depth, levels))
    IN  [i \in 1..Len(kept) |-> CoinbaseLevel(kept[i])]

CoinbaseSideRaises(book, side, depth) ==
    \/ SideRaises(book, side)
    \/ LET levels == Side(book, side)
           kept   == Slice(levels, LevelsDepth(depth, levels))
       IN  \E i \in 1..Len(kept) : CoinbaseLevelRaises(kept[i])

\* One side's Gemini part (loops of lines 78-80 and 86-88).
GeminiSide(book, side, depth) ==
    LET levels == Side(book, side)
        kept   == Slice(levels, LevelsDepth(depth, levels))
    IN  [i \in 1..Len(kept) |-> GeminiLevel(kept[i])]

GeminiSideRaises(book, side, depth) ==
    \/ SideRaises(book, side)
    \/ LET levels == Side(book, side)
           kept   == Slice(levels, LevelsDepth(depth, levels))
       IN  \E i \in 1..Len(kept) : GeminiLevelRaises(kept[i])

\* Whether lines 62-88 raise on these two snapshots.
BuildRaises(coinbase_book, gemini_book, depth) ==
    \/ CoinbaseSideRaises(coinbase_book, "bids", depth)
    \/ GeminiSideRaises(gemini_book, "bids", depth)
    \/ CoinbaseSideRaises(coinbase_book, "asks", depth)
    \/ GeminiSideRaises(gemini_book, "asks", depth)

\* new_internal_book of lines 90-93, when nothing raised: each side is the
\* Coinbase part followed by the Gemini part.
NewInternalBook(coinbase_book, gemini_book, depth) ==
    [bids |-> CoinbaseSide(coinbase_book, "bids", depth)
                \o GeminiSide(gemini_book, "bids", depth),
     asks |-> CoinbaseSide(coinbase_book, "asks", depth)
                \o GeminiSide(gemini_book, "asks", depth)]

(***************************************************************************)
(* OrderBook.calculate_execution_prices, lines 138-167.                    *)
(***************************************************************************)
\* list.sort(key=price, reverse=...) is stable: with or without reverse,
\* levels of equal price keep their order.  StaysAhead(a, b, reverse): a
\* level a already placed stays ahead of a later level b.
StaysAhead(a, b, reverse) ==
    IF reverse THEN a.price >= b.price ELSE a.price <= b.price

RECURSIVE InsertStable(_, _, _)
InsertStable(sorted, x, reverse) ==
    IF sorted = <<>> THEN <<x>>
    ELSE IF StaysAhead(Head(sorted), x, reverse)
         THEN <<Head(sorted)>> \o InsertStable(Tail(sorted), x, reverse)
         ELSE <<x>> \o sorted

RECURSIVE SortStable(_, _)
SortStable(levels, reverse) ==
    IF levels = <<>> THEN <<>>
    ELSE InsertStable(SortStable(SubSeq(levels, 1, Len(levels) - 1), reverse),
                      levels[Len(levels)], reverse)

\* Variant: the asks walked in the book's order, unsorted.
UnsortedAsks(book) == book.asks

\* asks = list(book["asks"]); asks.sort(key=price) (lines 138, 140).
SortedAsks(book) == SortStable(book.asks, FALSE)

\* Variant: the bids walked in the book's order, unsorted.
UnsortedBids(book) == book.bids

\* bids = list(book["bids"]); bids.sort(key=price, reverse=True) (139, 141).
SortedBids(book) == SortStable(book.bids, TRUE)

\* Variant: the whole remaining quantity is taken from a level, whatever
\* its size.
SizeTakeRemaining(level, remaining) == remaining

\* Variant: a level is always taken whole.
SizeTakeLevel(level, remaining) == level.size

\* size_take of lines 150 and 163.
SizeTake(level, remaining) == Min(level.size, remaining)

\* The loops of lines 147-154 and 160-167 from level i on; st holds the
\* loop's variables.  A fill is (exchange, size_take, price, cost).
RECURSIVE WalkFrom(_, _, _)
WalkFrom(levels, i, st) ==
    IF i > Len(levels) \/ st.remaining <= 0 THEN st
    ELSE LET level     == levels[i]
             size_take == SizeTake(level, st.remaining)
             cost      == size_take * level.price
         IN  WalkFrom(levels, i + 1,
                 [remaining |-> st.remaining - size_take,
                  total     |-> st.total + cost,
                  fills     |-> Append(st.fills,
                      <<level.exchange, size_take, level.price, cost>>)])

Walk(levels, quantity_btc) ==
    WalkFrom(levels, 1,
             [remaining |-> quantity_btc, total |-> 0, fills |-> <<>>])

\* What one call computes from the book it read (lines 138-167).
ExecutionPrices(book, quantity_btc) ==
    LET buy  == Walk(SortedAsks(book), quantity_btc)
        sell == Walk(SortedBids(book), quantity_btc)
    IN  [quantity_btc   |-> quantity_btc,
         remaining_buy  |-> buy.remaining,
         cost_buy       |-> buy.total,
         buy_fills      |-> buy.fills,
         remaining_sell |-> sell.remaining,
         revenue_sell   |-> sell.total,
         sell_fills     |-> sell.fills]

(***************************************************************************)
(* Program constants and inputs                                            *)
(***************************************************************************)
\* RateLimiter(2.0): seconds.
min_interval == 2

\* time.time() when the program starts: seconds since 1970, far more than
\* min_interval after last_called's initial 0.0.  The model's clock starts
\* at the smallest such value.
StartTime == min_interval

Times == StartTime..MaxTime

Venues == {"coinbase", "gemini"}

\* The threads of lines 198-200, and a second thread running the Coinbase
\* fetch loop for the limiter's concurrent callers.
Fetchers == {"coinbase_worker", "gemini_worker"}

Printer == "printer_worker"

SecondCaller == "coinbase_worker2"

Threads == Fetchers \cup {Printer, SecondCaller}

VenueOf(t) == IF t = "gemini_worker" THEN "gemini" ELSE "coinbase"

Free == "free"

\* What response.json() returns for the venue's book (lines 41, 51): sample
\* well-formed books, and bodies that are JSON objects of another shape.
CoinbaseA ==
    [bids |-> << <<"99", "1">> >>,
     asks |-> << <<"100", "1">>, <<"101", "2">> >>]

CoinbaseB ==
    [bids |-> << <<"99.5", "2">>, <<"99", "1">> >>,
     asks |-> << <<"100.5", "1">> >>]

\* An object without "bids" and "asks".
CoinbaseMessage == [message |-> "unavailable"]

GeminiA ==
    [bids |-> << [price |-> "99.5", amount |-> "1"] >>,
     asks |-> << [price |-> "100.5", amount |-> "1.5"] >>]

\* A level without "amount".
GeminiShort ==
    [bids |-> << [price |-> "99.5"] >>,
     asks |-> << [price |-> "100.5", amount |-> "1.5"] >>]

FetchPayloads(v) ==
    IF v = "coinbase" THEN {CoinbaseA, CoinbaseB, CoinbaseMessage}
    ELSE {GeminiA, GeminiShort}

\* Why lines 39-41 raise: requests.get (connection failure, timeout) and
\* raise_for_status (non-success status) raise a RequestException,
\* response.json (body not JSON) a JSONDecodeError.
FetchErrors == {"RequestException", "JSONDecodeError"}

\* args.qty: 10.0 BTC unless --qty is given (line 177).
DefaultQty == 20

(***************************************************************************)
(* State                                                                   *)
(***************************************************************************)
VARIABLES
    clock,                \* what time.time() returns now
    last_called,          \* RateLimiter.last_called, per venue's limiter
    limiter_lock,         \* RateLimiter._lock, per venue: Free or its holder
    coinbase_order_book,  \* OrderBook fields (lines 24-30) ...
    gemini_order_book,
    internal_order_book,
    coinbase_lock,        \* ... _coinbase_lock, _gemini_lock, _internal_lock
    gemini_lock,
    internal_lock,
    depth,
    quantity_btc,         \* args.qty
    pc,                   \* where each thread is
    now,                  \* allow(): the caller's local now
    data,                 \* fetch_*(): the caller's local data
    exception,            \* the exception that ended a thread, or "none"
    coinbase_book,        \* build_internal_order_book(): locals
    gemini_book,
    new_internal_book,
    book,                 \* calculate_execution_prices(): locals
    prices,
    allowed               \* history: per limiter, the recorded times (now)
                          \* of the allow() calls that returned True

limiter_vars == <<clock, last_called, limiter_lock, now, allowed>>

store_vars == <<coinbase_order_book, gemini_order_book, internal_order_book>>

lock_vars == <<coinbase_lock, gemini_lock, internal_lock>>

input_vars == <<depth, quantity_btc>>

build_vars == <<coinbase_book, gemini_book, new_internal_book>>

calc_vars == <<book, prices>>

vars == <<limiter_vars, store_vars, lock_vars, input_vars, pc, data,
          exception, build_vars, calc_vars>>

\* No thread has run yet: the fields as the constructors leave them
\* (lines 8-11, 23-32), every local unset.
Fresh ==
    /\ limiter_lock = [v \in Venues |-> Free]
    /\ coinbase_lock = Free
    /\ gemini_lock = Free
    /\ internal_lock = Free
    /\ now = [t \in Threads |-> 0]
    /\ data = [t \in Threads |-> NoneVal]
    /\ exception = [t \in Threads |-> "none"]
    /\ coinbase_book = NoneVal
    /\ gemini_book = NoneVal
    /\ new_internal_book = NoneVal
    /\ book = NoneVal
    /\ prices = NoneVal

\* The stored snapshots and the limiters that go with them: a limiter that
\* never allowed a call has last_called = 0.0 (line 10) and no snapshot was
\* stored; a stored snapshot was fetched by a call allowed at StartTime.
Fetched(coinbase, gemini) ==
    /\ coinbase_order_book = coinbase
    /\ gemini_order_book = gemini
    /\ last_called = [v \in Venues |->
          IF (IF v = "coinbase" THEN coinbase ELSE gemini) = NoneVal
          THEN 0 ELSE StartTime]
    /\ allowed = [v \in Venues |->
          IF last_called[v] = 0 THEN <<>> ELSE <<last_called[v]>>]

\* The program of lines 175-200: OrderBook(depth=None), the default
\* quantity, the three workers started.
Init ==
    /\ Fresh
    /\ clock = StartTime
    /\ Fetched(NoneVal, NoneVal)
    /\ internal_order_book = NoneVal
    /\ depth = <<>>
    /\ quantity_btc = DefaultQty
    /\ pc = [t \in Threads |-> IF t = SecondCaller THEN "off" ELSE "loop"]

(***************************************************************************)
(* The wall clock.  time.time() is the system's wall clock: it advances,   *)
(* and an adjustment of the system time may set it back.  time.sleep(2)    *)
(* waits on another clock, so a worker's sleep bounds no difference of two *)
(* time.time() readings: the workers' sleeps are steps of any duration.    *)
(* The program's specification keeps to a clock that advances; the         *)
(* limiter's own specification also sets it back.                          *)
(***************************************************************************)
ClockAdvance ==
    /\ clock < MaxTime
    /\ clock' = clock + 1
    /\ UNCHANGED <<last_called, limiter_lock, now, allowed,
                   store_vars, lock_vars, input_vars, pc, data, exception,
                   build_vars, calc_vars>>

ClockSetBack ==
    /\ clock > StartTime
    /\ clock' = clock - 1
    /\ UNCHANGED <<last_called, limiter_lock, now, allowed,
                   store_vars, lock_vars, input_vars, pc, data, exception,
                   build_vars, calc_vars>>

(***************************************************************************)
(* RateLimiter.allow (lines 13-19), called by fetch_coinbase (line 35) and *)
(* fetch_gemini (line 46) from the worker loops (lines 183-190).           *)
(***************************************************************************)
\* Variant: the test of line 16 written with > for >=.
IntervalElapsedStrict(n, last) == n - last > min_interval

\* `now - self.last_called >= self.min_interval` (line 16)
IntervalElapsed(n, last) == n - last >= min_interval

\* Variant: allow() entered without taking self._lock.
AllowAcquireNoLock(t) ==
    /\ pc[t] = "loop"
    /\ limiter_lock' = [limiter_lock EXCEPT ![VenueOf(t)] = t]
    /\ pc' = [pc EXCEPT ![t] = "allow_now"]
    /\ UNCHANGED <<clock, last_called, now, allowed,
                   store_vars, lock_vars, input_vars, data, exception,
                   build_vars, calc_vars>>

\* From the worker's loop (between two iterations, the sleep included) the
\* thread calls fetch, which calls allow, which enters `with self._lock`
\* (line 14).
AllowAcquire(t) ==
    /\ pc[t] = "loop"
    /\ limiter_lock[VenueOf(t)] = Free
    /\ limiter_lock' = [limiter_lock EXCEPT ![VenueOf(t)] = t]
    /\ pc' = [pc EXCEPT ![t] = "allow_now"]
    /\ UNCHANGED <<clock, last_called, now, allowed,
                   store_vars, lock_vars, input_vars, data, exception,
                   build_vars, calc_vars>>

\* now = time.time() (line 15)
AllowNow(t) ==
    /\ pc[t] = "allow_now"
    /\ now' = [now EXCEPT ![t] = clock]
    /\ pc' = [pc EXCEPT ![t] = "allow_check"]
    /\ UNCHANGED <<clock, last_called, limiter_lock, allowed,
                   store_vars, lock_vars, input_vars, data, exception,
                   build_vars, calc_vars>>

\* Variant: allow() records the time of a call it denies.
AllowCheckRecords(t) ==
    /\ pc[t] = "allow_check"
    /\ IF IntervalElapsed(now[t], last_called[VenueOf(t)])
       THEN /\ pc' = [pc EXCEPT ![t] = "allow_set"]
            /\ UNCHANGED <<limiter_lock, now, last_called>>
       ELSE /\ pc' = [pc EXCEPT ![t] = "denied"]
            /\ last_called' = [last_called EXCEPT ![VenueOf(t)] = now[t]]
            /\ limiter_lock' = [limiter_lock EXCEPT ![VenueOf(t)] = Free]
            /\ now' = [now EXCEPT ![t] = 0]
    /\ UNCHANGED <<clock, allowed,
                   store_vars, lock_vars, input_vars, data, exception,
                   build_vars, calc_vars>>

\* The test of line 16.  When it fails, return False (line 19) leaves the
\* with block: the caller, fetch, has been denied.
AllowCheck(t) ==
    /\ pc[t] = "allow_check"
    /\ IF IntervalElapsed(now[t], last_called[VenueOf(t)])
       THEN /\ pc' = [pc EXCEPT ![t] = "allow_set"]
            /\ UNCHANGED <<limiter_lock, now>>
       ELSE /\ pc' = [pc EXCEPT ![t] = "denied"]
            /\ limiter_lock' = [limiter_lock EXCEPT ![VenueOf(t)] = Free]
            /\ now' = [now EXCEPT ![t] = 0]
    /\ UNCHANGED <<clock, last_called, allowed,
                   store_vars, lock_vars, input_vars, data, exception,
                   build_vars, calc_vars>>

\* self.last_called = now; return True (lines 17-18) leaves the with block:
\* the caller, fetch, goes on to its request.
AllowSet(t) ==
    /\ pc[t] = "allow_set"
    /\ last_called' = [last_called EXCEPT ![VenueOf(t)] = now[t]]
    /\ allowed' = [allowed EXCEPT ![VenueOf(t)] = Append(@, now[t])]
    /\ limiter_lock' = [limiter_lock EXCEPT ![VenueOf(t)] = Free]
    /\ now' = [now EXCEPT ![t] = 0]
    /\ pc' = [pc EXCEPT ![t] = "get"]
    /\ UNCHANGED <<clock, store_vars, lock_vars, input_vars, data, exception,
                   build_vars, calc_vars>>

(***************************************************************************)
(* OrderBook.fetch_coinbase (lines 34-43), fetch_gemini (lines 45-53)      *)
(***************************************************************************)
\* `if not self.coinbase_limiter.allow(): return` (lines 35-36, 46-47):
\* denied, fetch returns to the worker's loop.
FetchDenied(t) ==
    /\ pc[t] = "denied"
    /\ pc' = [pc EXCEPT ![t] = "loop"]
    /\ UNCHANGED <<limiter_vars, store_vars, lock_vars, input_vars, data,
                   exception, build_vars, calc_vars>>

\* Variant: a failed fetch drops the venue's stored snapshot.
FetchRaiseClears(t, e) ==
    /\ pc' = [pc EXCEPT ![t] = "dead"]
    /\ exception' = [exception EXCEPT ![t] = e]
    /\ IF VenueOf(t) = "coinbase"
       THEN coinbase_order_book' = NoneVal
            /\ UNCHANGED <<gemini_order_book, internal_order_book>>
       ELSE gemini_order_book' = NoneVal
            /\ UNCHANGED <<coinbase_order_book, internal_order_book>>
    /\ UNCHANGED data

\* An exception of lines 39-41 (49-51) is caught nowhere: it leaves fetch
\* and the worker's `while True` (lines 183-190), and the thread ends.
FetchRaise(t, e) ==
    /\ pc' = [pc EXCEPT ![t] = "dead"]
    /\ exception' = [exception EXCEPT ![t] = e]
    /\ UNCHANGED <<data, store_vars>>

\* requests.get, raise_for_status, response.json (lines 39-41, 49-51).
FetchGet(t) ==
    /\ pc[t] = "get"
    /\ \/ \E e \in FetchErrors : FetchRaise(t, e)
       \/ \E d \in FetchPayloads(VenueOf(t)) :
            /\ data' = [data EXCEPT ![t] = d]
            /\ pc' = [pc EXCEPT ![t] = "lock"]
            /\ UNCHANGED <<exception, store_vars>>
    /\ UNCHANGED <<limiter_vars, lock_vars, input_vars, build_vars, calc_vars>>

\* `with self._coinbase_lock` / `with self._gemini_lock` (lines 42, 52)
FetchLock(t) ==
    /\ pc[t] = "lock"
    /\ IF VenueOf(t) = "coinbase"
       THEN coinbase_lock = Free /\ coinbase_lock' = t
                                 /\ UNCHANGED gemini_lock
       ELSE gemini_lock = Free /\ gemini_lock' = t
                               /\ UNCHANGED coinbase_lock
    /\ pc' = [pc EXCEPT ![t] = "store"]
    /\ UNCHANGED <<limiter_vars, store_vars, internal_lock, input_vars, data,
                   exception, build_vars, calc_vars>>

\* Variant: the stored object is updated in place, key by key, and the
\* update stops before "asks": new keys beside the old asks.
TornUpdate(old, d) ==
    IF old = NoneVal THEN d
    ELSE [k \in DOMAIN d |->
            IF k = "asks" /\ "asks" \in DOMAIN old THEN old["asks"] ELSE d[k]]

StoreSnapshotTorn(v, d) ==
    IF v = "coinbase"
    THEN coinbase_order_book' = TornUpdate(coinbase_order_book, d)
         /\ UNCHANGED gemini_order_book
    ELSE gemini_order_book' = TornUpdate(gemini_order_book, d)
         /\ UNCHANGED coinbase_order_book

\* self.coinbase_order_book = data / self.gemini_order_book = data (lines
\* 43, 53): the reference is replaced.
StoreSnapshot(v, d) ==
    IF v = "coinbase"
    THEN coinbase_order_book' = d /\ UNCHANGED gemini_order_book
    ELSE gemini_order_book' = d /\ UNCHANGED coinbase_order_book

\* The assignment, the end of the with block, and fetch's return to the
\* worker's sleep.
FetchStore(t) ==
    /\ pc[t] = "store"
    /\ StoreSnapshot(VenueOf(t), data[t])
    /\ IF VenueOf(t) = "coinbase"
       THEN coinbase_lock' = Free /\ UNCHANGED gemini_lock
       ELSE gemini_lock' = Free /\ UNCHANGED coinbase_lock
    /\ data' = [data EXCEPT ![t] = NoneVal]
    /\ pc' = [pc EXCEPT ![t] = "loop"]
    /\ UNCHANGED <<limiter_vars, internal_order_book, internal_lock,
                   input_vars, exception, build_vars, calc_vars>>

\* coinbase_worker, gemini_worker (lines 182-190)
FetchWorker(t) ==
    \/ AllowAcquire(t)
    \/ AllowNow(t)
    \/ AllowCheck(t)
    \/ AllowSet(t)
    \/ FetchDenied(t)
    \/ FetchGet(t)
    \/ FetchLock(t)
    \/ FetchStore(t)

(***************************************************************************)
(* OrderBook.build_internal_order_book (lines 55-96), called by            *)
(* printer_worker (line 195) after its sleep.                              *)
(***************************************************************************)
\* `with self._coinbase_lock` (line 57)
BuildLockCoinbase ==
    /\ pc[Printer] = "loop"
    /\ coinbase_lock = Free
    /\ coinbase_lock' = Printer
    /\ pc' = [pc EXCEPT ![Printer] = "read_coinbase"]
    /\ UNCHANGED <<limiter_vars, store_vars, gemini_lock, internal_lock,
                   input_vars, data, exception, build_vars, calc_vars>>

\* Variant: _coinbase_lock is kept after the read.
BuildReadCoinbaseKeepsLock ==
    /\ pc[Printer] = "read_coinbase"
    /\ coinbase_book' = coinbase_order_book
    /\ pc' = [pc EXCEPT ![Printer] = "lock_gemini"]
    /\ UNCHANGED <<limiter_vars, store_vars, lock_vars,
                   input_vars, data, exception, gemini_book,
                   new_internal_book, calc_vars>>

\* coinbase_book = self.coinbase_order_book (line 58); the block ends.
BuildReadCoinbase ==
    /\ pc[Printer] = "read_coinbase"
    /\ coinbase_book' = coinbase_order_book
    /\ coinbase_lock' = Free
    /\ pc' = [pc EXCEPT ![Printer] = "lock_gemini"]
    /\ UNCHANGED <<limiter_vars, store_vars, gemini_lock, internal_lock,
                   input_vars, data, exception, gemini_book,
                   new_internal_book, calc_vars>>

\* `with self._gemini_lock` (line 59)
BuildLockGemini ==
    /\ pc[Printer] = "lock_gemini"
    /\ gemini_lock = Free
    /\ gemini_lock' = Printer
    /\ pc' = [pc EXCEPT ![Printer] = "read_gemini"]
    /\ UNCHANGED <<limiter_vars, store_vars, coinbase_lock, internal_lock,
                   input_vars, data, exception, build_vars, calc_vars>>

\* gemini_book = self.gemini_order_book (line 60); the block ends.
BuildReadGemini ==
    /\ pc[Printer] = "read_gemini"
    /\ gemini_book' = gemini_order_book
    /\ gemini_lock' = Free
    /\ pc' = [pc EXCEPT ![Printer] = "build"]
    /\ UNCHANGED <<limiter_vars, store_vars, coinbase_lock, internal_lock,
                   input_vars, data, exception, coinbase_book,
                   new_internal_book, calc_vars>>

\* Variant: the asks are taken from the Coinbase snapshot stored now, read
\* again, and the bids from the one read at line 58.
BuildCombineRereads ==
    /\ pc[Printer] = "build"
    /\ IF BuildRaises(coinbase_book, gemini_book, depth)
       THEN /\ pc' = [pc EXCEPT ![Printer] = "dead"]
            /\ exception' = [exception EXCEPT ![Printer] = "BuildError"]
            /\ UNCHANGED new_internal_book
       ELSE /\ new_internal_book' =
                   [bids |-> NewInternalBook(coinbase_book, gemini_book,
                                             depth).bids,
                    asks |-> NewInternalBook(
                                 IF BuildRaises(coinbase_order_book,
                                                gemini_book, depth)
                                 THEN coinbase_book
                                 ELSE coinbase_order_book,
                                 gemini_book, depth).asks]
            /\ pc' = [pc EXCEPT ![Printer] = "lock_internal"]
            /\ UNCHANGED exception
    /\ UNCHANGED <<limiter_vars, store_vars, lock_vars, input_vars, data,
                   coinbase_book, gemini_book, calc_vars>>

\* Lines 62-93 on the two references read.  An exception of these lines is
\* caught nowhere: it leaves printer_worker's `while True` (lines 193-196)
\* and the thread ends.
BuildCombine ==
    /\ pc[Printer] = "build"
    /\ IF BuildRaises(coinbase_book, gemini_book, depth)
       THEN /\ pc' = [pc EXCEPT ![Printer] = "dead"]
            /\ exception' = [exception EXCEPT ![Printer] = "BuildError"]
            /\ UNCHANGED new_internal_book
       ELSE /\ new_internal_book' =
                   NewInternalBook(coinbase_book, gemini_book, depth)
            /\ pc' = [pc EXCEPT ![Printer] = "lock_internal"]
            /\ UNCHANGED exception
    /\ UNCHANGED <<limiter_vars, store_vars, lock_vars, input_vars, data,
                   coinbase_book, gemini_book, calc_vars>>

\* `with self._internal_lock` (line 95)
BuildLockInternal ==
    /\ pc[Printer] = "lock_internal"
    /\ internal_lock = Free
    /\ internal_lock' = Printer
    /\ pc' = [pc EXCEPT ![Printer] = "publish"]
    /\ UNCHANGED <<limiter_vars, store_vars, coinbase_lock, gemini_lock,
                   input_vars, data, exception, build_vars, calc_vars>>

\* Variant: the book built is not stored.
PublishNothing(b) == internal_order_book' = internal_order_book

\* self.internal_order_book = new_internal_book (line 96): the reference is
\* replaced.
PublishInternal(b) == internal_order_book' = b

\* The assignment, the end of the block and the return to printer_worker,
\* which goes on to calculate_execution_prices (line 196).
BuildPublish ==
    /\ pc[Printer] = "publish"
    /\ PublishInternal(new_internal_book)
    /\ internal_lock' = Free
    /\ coinbase_book' = NoneVal
    /\ gemini_book' = NoneVal
    /\ new_internal_book' = NoneVal
    /\ pc' = [pc EXCEPT ![Printer] = "calc_lock"]
    /\ UNCHANGED <<limiter_vars, coinbase_order_book, gemini_order_book,
                   coinbase_lock, gemini_lock, input_vars, data, exception,
                   calc_vars>>

Merger ==
    \/ BuildLockCoinbase
    \/ BuildReadCoinbase
    \/ BuildLockGemini
    \/ BuildReadGemini
    \/ BuildCombine
    \/ BuildLockInternal
    \/ BuildPublish

(***************************************************************************)
(* OrderBook.calculate_execution_prices (lines 130-172), called by         *)
(* printer_worker (line 196).                                              *)
(***************************************************************************)
\* `with self._internal_lock` (line 131)
CalcLock ==
    /\ pc[Printer] = "calc_lock"
    /\ internal_lock = Free
    /\ internal_lock' = Printer
    /\ pc' = [pc EXCEPT ![Printer] = "calc_read"]
    /\ UNCHANGED <<limiter_vars, store_vars, coinbase_lock, gemini_lock,
                   input_vars, data, exception, build_vars, calc_vars>>

\* book = self.internal_order_book (line 132); the block ends.
CalcRead ==
    /\ pc[Printer] = "calc_read"
    /\ book' = internal_order_book
    /\ internal_lock' = Free
    /\ pc' = [pc EXCEPT ![Printer] = "calc"]
    /\ UNCHANGED <<limiter_vars, store_vars, coinbase_lock, gemini_lock,
                   input_vars, data, exception, build_vars, prices>>

\* Variant: the sorts of lines 140-141 applied to the lists of the object
\* `book` refers to, which is the stored merged book.
SortInPlace ==
    internal_order_book' =
        IF internal_order_book = book
        THEN [bids |-> SortedBids(book), asks |-> SortedAsks(book)]
        ELSE internal_order_book

\* list(book["asks"]), list(book["bids"]) (lines 138-139) are new lists:
\* the sorts of lines 140-141 reorder the copies, and the lists of the
\* object `book` refers to, the stored merged book, stay as they are.
SortCopies == internal_order_book' = internal_order_book

\* Lines 134-167: without a book the call returns (line 136); with one, the
\* two walks run and their results are about to be printed.
CalcWalk ==
    /\ pc[Printer] = "calc"
    /\ IF ~Truthy(book)
       THEN /\ pc' = [pc EXCEPT ![Printer] = "loop"]
            /\ book' = NoneVal
            /\ UNCHANGED <<prices, internal_order_book>>
       ELSE /\ SortCopies
            /\ prices' = ExecutionPrices(book, quantity_btc)
            /\ pc' = [pc EXCEPT ![Printer] = "print"]
            /\ UNCHANGED book
    /\ UNCHANGED <<limiter_vars, coinbase_order_book, gemini_order_book,
                   lock_vars, input_vars, data, exception, build_vars>>

\* Lines 169-172 print the totals; the call returns to printer_worker's
\* loop and its sleep (lines 193-194).
CalcPrint ==
    /\ pc[Printer] = "print"
    /\ book' = NoneVal
    /\ prices' = NoneVal
    /\ pc' = [pc EXCEPT ![Printer] = "loop"]
    /\ UNCHANGED <<limiter_vars, store_vars, lock_vars, input_vars, data,
                   exception, build_vars>>

Simulator ==
    \/ CalcLock
    \/ CalcRead
    \/ CalcWalk
    \/ CalcPrint

(***************************************************************************)
(* The program                                                             *)
(***************************************************************************)
Next ==
    \/ ClockAdvance
    \/ \E t \in Fetchers : FetchWorker(t)
    \/ Merger
    \/ Simulator

Spec == Init /\ [][Next]_vars

(***************************************************************************)
(* The program under fair scheduling.  A thread that can run does run: the *)
(* thread of printer_worker, whose steps wait for nothing but a lock, gets *)
(* a lock that is free again and again; a fetcher's steps other than its   *)
(* request are taken when they can be.  The request (lines 39, 49) is the  *)
(* network's: it may never return.                                         *)
(***************************************************************************)
\* A fetcher's steps that wait for no answer of the network.
FetchWorkerLocal(t) ==
    \/ AllowAcquire(t)
    \/ AllowNow(t)
    \/ AllowCheck(t)
    \/ AllowSet(t)
    \/ FetchDenied(t)
    \/ FetchLock(t)
    \/ FetchStore(t)

SpecFair ==
    /\ Spec
    /\ SF_vars(Merger)
    /\ SF_vars(Simulator)
    /\ \A t \in Fetchers : WF_vars(FetchWorkerLocal(t))

(***************************************************************************)
(* The rate limiter under concurrent callers: two threads run the Coinbase *)
(* fetch loop on one OrderBook, so both call coinbase_limiter.allow().     *)
(***************************************************************************)
LimiterCallers == {"coinbase_worker", SecondCaller}

InitLimiter ==
    /\ Fresh
    /\ clock = StartTime
    /\ Fetched(NoneVal, NoneVal)
    /\ internal_order_book = NoneVal
    /\ depth = <<>>
    /\ quantity_btc = DefaultQty
    /\ pc = [t \in Threads |-> IF t \in LimiterCallers THEN "loop" ELSE "off"]

NextLimiter ==
    \/ ClockAdvance
    \/ ClockSetBack
    \/ \E t \in LimiterCallers : FetchWorker(t)

SpecLimiter == InitLimiter /\ [][NextLimiter]_vars

(***************************************************************************)
(* The merger on its own: build_internal_order_book called on an OrderBook *)
(* of any depth holding any pair of snapshots.                             *)
(***************************************************************************)
Depths == {<<>>} \cup {<<n>> : n \in 0..MaxDepth}

CoinbaseLevels == {<<"100", "1">>, <<"101", "2">>}

GeminiLevels ==
    {[price |-> "100.5", amount |-> "1.5"], [price |-> "100", amount |-> "1"]}

\* Well-formed venue books of at most MaxLevels levels per side.
CoinbaseBooks ==
    {[bids |-> b, asks |-> a] : b, a \in SeqsUpTo(CoinbaseLevels, MaxLevels)}

GeminiBooks ==
    {[bids |-> b, asks |-> a] : b, a \in SeqsUpTo(GeminiLevels, MaxLevels)}

InitMerger ==
    /\ Fresh
    /\ clock = StartTime
    /\ \E c \in {NoneVal, CoinbaseMessage} \cup CoinbaseBooks :
         \E g \in {NoneVal, GeminiShort} \cup GeminiBooks : Fetched(c, g)
    /\ internal_order_book = NoneVal
    /\ depth \in Depths
    /\ quantity_btc = DefaultQty
    /\ pc = [t \in Threads |-> IF t = Printer THEN "loop" ELSE "off"]

NextMerger == Merger

SpecMerger == InitMerger /\ [][NextMerger]_vars

(***************************************************************************)
(* The simulator on its own: calculate_execution_prices called with any    *)
(* quantity on the merged book of any pair of well-formed snapshots.       *)
(***************************************************************************)
\* Quantities in halves: negative, zero, less than one level, across
\* levels, the default 10.0.
Quantities == {-2, 0, 1, 3, 4, 7, DefaultQty}

InitSimulator ==
    /\ Fresh
    /\ clock = StartTime
    /\ \E c \in CoinbaseBooks : \E g \in GeminiBooks :
         /\ Fetched(c, g)
         /\ internal_order_book = NewInternalBook(c, g, <<>>)
    /\ depth = <<>>
    /\ quantity_btc \in Quantities
    /\ pc = [t \in Threads |-> IF t = Printer THEN "calc_lock" ELSE "off"]

NextSimulator == Simulator

SpecSimulator == InitSimulator /\ [][NextSimulator]_vars

(***************************************************************************)
(* Properties                                                              *)
(***************************************************************************)
Abs(x) == IF x < 0 THEN -x ELSE x

\* The venue's stored snapshot.
Snapshot(v) ==
    IF v = "coinbase" THEN coinbase_order_book ELSE gemini_order_book

\* Thread t takes a step from position p.
StepsFrom(t, p) == pc[t] = p /\ pc'[t] # p

\* C1 (SpecLimiter): on each limiter, the times recorded by any two
\* allow() calls that returned True are at least min_interval apart,
\* whichever threads made the calls and however they interleave.
C1_AllowedApart ==
    \A v \in Venues : \A i, j \in DOMAIN allowed[v] :
        i # j => Abs(allowed[v][i] - allowed[v][j]) >= min_interval

\* Both concurrent callers hold a True from allow() at once (each is about
\* to send its request), from two different calls.
C1_Witness ==
    /\ pc["coinbase_worker"] = "get"
    /\ pc[SecondCaller] = "get"
    /\ Len(allowed["coinbase"]) >= 2

\* C2 (Spec): a failure of a fetch never ends the venue's fetch loop: no
\* fetch worker is ever terminated.
C2_FetchLoopNeverEnds ==
    \A t \in Fetchers : pc[t] # "dead"

\* C3 (Spec): a fetch that fails (request failure or non-success status)
\* leaves both venue snapshots and the merged book as they were: no step of
\* a fetch before its store, and in particular the failing step, changes
\* them.
C3_FailedFetchKeepsBooks ==
    [][\A t \in Fetchers :
        /\ (pc'[t] # pc[t] /\ pc[t] # "store") => UNCHANGED store_vars
        /\ (StepsFrom(t, "get") /\ exception'[t] # "none") =>
              /\ pc'[t] = "dead"
              /\ UNCHANGED store_vars]_vars

\* A fetch has failed on a request error while the venue's snapshot of an
\* earlier fetch and a merged book are stored.
C3_Witness ==
    \E t \in Fetchers :
        /\ pc[t] = "dead"
        /\ exception[t] = "RequestException"
        /\ Snapshot(VenueOf(t)) # NoneVal
        /\ internal_order_book # NoneVal

\* C5 (Spec): a fetch its limiter denies sends no request (it returns to
\* the worker's loop from the denial) and changes neither the snapshots,
\* nor the merged book, nor the limiter's last_called.
C5_DeniedFetchChangesNothing ==
    [][\A t \in Fetchers :
        /\ (\/ StepsFrom(t, "loop")
            \/ StepsFrom(t, "allow_now")
            \/ StepsFrom(t, "denied")) =>
              UNCHANGED <<store_vars, last_called>>
        /\ (/\ StepsFrom(t, "allow_check")
            /\ now[t] - last_called[VenueOf(t)] < min_interval) =>
              /\ pc'[t] = "denied"
              /\ UNCHANGED <<store_vars, last_called>>
        /\ StepsFrom(t, "denied") => pc'[t] = "loop"]_vars

\* A fetch has just been denied while a snapshot of the venue and a merged
\* book are stored.
C5_Witness ==
    \E t \in Fetchers :
        /\ pc[t] = "denied"
        /\ Snapshot(VenueOf(t)) # NoneVal
        /\ internal_order_book # NoneVal

\* C6 (SpecLimiter): allow() returns True and sets last_called to its now
\* exactly when now - last_called >= min_interval; otherwise it returns
\* False and last_called keeps its value.  No other step of a caller
\* changes last_called.
C6_AllowIffElapsed ==
    [][\A t \in LimiterCallers :
        /\ StepsFrom(t, "allow_check") =>
              /\ last_called' = last_called
              /\ IF now[t] - last_called[VenueOf(t)] >= min_interval
                 THEN pc'[t] = "allow_set"
                 ELSE pc'[t] = "denied"
        /\ StepsFrom(t, "allow_set") =>
              /\ now[t] - last_called[VenueOf(t)] >= min_interval
              /\ last_called'[VenueOf(t)] = now[t]
              /\ pc'[t] = "get"
        /\ (pc'[t] # pc[t] /\ pc[t] # "allow_set") =>
              last_called' = last_called]_vars

\* One caller has been denied after two calls were allowed exactly
\* min_interval apart.
C6_Witness ==
    /\ \E t \in LimiterCallers : pc[t] = "denied"
    /\ \E i \in DOMAIN allowed["coinbase"] :
         /\ i > 1
         /\ allowed["coinbase"][i] - allowed["coinbase"][i - 1] = min_interval

\* A stored value that is a valid book of its venue: both sides present,
\* every level of the venue's shape with numeric price and size.
ValidCoinbaseBook(x) ==
    /\ {"bids", "asks"} \subseteq DOMAIN x
    /\ \A side \in {"bids", "asks"} : \A i \in DOMAIN x[side] :
          ~CoinbaseLevelRaises(x[side][i])

ValidGeminiBook(x) ==
    /\ {"bids", "asks"} \subseteq DOMAIN x
    /\ \A side \in {"bids", "asks"} : \A i \in DOMAIN x[side] :
          ~GeminiLevelRaises(x[side][i])

\* C4 (Spec): a malformed payload is never stored as a venue's snapshot
\* (each stored snapshot is absent or a valid book), and the merger's
\* thread is never ended by the content of a stored snapshot.
C4_StoredSnapshotsValid ==
    /\ coinbase_order_book = NoneVal \/ ValidCoinbaseBook(coinbase_order_book)
    /\ gemini_order_book = NoneVal \/ ValidGeminiBook(gemini_order_book)
    /\ exception[Printer] = "none"

\* How many levels of a merged side carry the venue's tag.
VenueCount(levels, v) ==
    Cardinality({i \in DOMAIN levels : levels[i].exchange = v})

\* How many levels the snapshot read has on a side (none when absent).
LevelsAvailable(snapshot, side) ==
    IF snapshot = NoneVal THEN 0 ELSE Len(snapshot[side])

\* The snapshot the merger read for a venue.
SnapshotRead(v) == IF v = "coinbase" THEN coinbase_book ELSE gemini_book

\* C7 (SpecMerger): with depth N >= 0 (0 included), the merged book about
\* to be published has, per venue and side, exactly min(N, levels of the
\* snapshot read) levels; with depth unset, all of them.
C7_DepthLimitsLevels ==
    pc[Printer] = "publish" =>
        \A v \in Venues : \A side \in {"bids", "asks"} :
            VenueCount(new_internal_book[side], v) =
                IF depth = <<>>
                THEN LevelsAvailable(SnapshotRead(v), side)
                ELSE Min(depth[1], LevelsAvailable(SnapshotRead(v), side))

\* The merged book built from one venue's snapshot alone.
CoinbaseAlone(snapshot) ==
    [bids |-> CoinbaseSide(snapshot, "bids", depth),
     asks |-> CoinbaseSide(snapshot, "asks", depth)]

GeminiAlone(snapshot) ==
    [bids |-> GeminiSide(snapshot, "bids", depth),
     asks |-> GeminiSide(snapshot, "asks", depth)]

\* C8 (Spec): when the merger read an absent snapshot for a venue, the
\* build does not fail, and the book it publishes is the one built from
\* the other venue's snapshot alone (empty on both sides when both are
\* absent).
C8_AbsentVenueIsEmpty ==
    (/\ pc[Printer] \in {"lock_internal", "publish", "dead"}
     /\ coinbase_book = NoneVal \/ gemini_book = NoneVal) =>
        /\ pc[Printer] # "dead"
        /\ new_internal_book =
              IF coinbase_book = NoneVal /\ gemini_book = NoneVal
              THEN [bids |-> <<>>, asks |-> <<>>]
              ELSE IF coinbase_book = NoneVal
                   THEN GeminiAlone(gemini_book)
                   ELSE CoinbaseAlone(coinbase_book)

\* The values a writer constructs whole before it publishes them: what
\* response.json() returned, and the merged book of two such snapshots.
WholeSnapshot(v, x) == x = NoneVal \/ x \in FetchPayloads(v)

\* C9 (Spec): every read of a snapshot or of the merged book returns the
\* reference stored at that moment, and every store replaces the reference
\* by one whole value its writer had constructed before: a reader sees
\* None or one published value, never a part or a mix.
C9_ReadsSeeWholeValues ==
    [][/\ StepsFrom(Printer, "read_coinbase") =>
              /\ coinbase_book' = coinbase_order_book
              /\ WholeSnapshot("coinbase", coinbase_book')
       /\ StepsFrom(Printer, "read_gemini") =>
              /\ gemini_book' = gemini_order_book
              /\ WholeSnapshot("gemini", gemini_book')
       /\ StepsFrom(Printer, "calc_read") =>
              book' = internal_order_book
       /\ \A v \in Venues : Snapshot(v)' # Snapshot(v) =>
              \E t \in Fetchers :
                  /\ VenueOf(t) = v
                  /\ StepsFrom(t, "store")
                  /\ data[t] \in FetchPayloads(v)
                  /\ Snapshot(v)' = data[t]
       /\ internal_order_book' # internal_order_book =>
              /\ StepsFrom(Printer, "publish")
              /\ WholeSnapshot("coinbase", coinbase_book)
              /\ WholeSnapshot("gemini", gemini_book)
              /\ new_internal_book =
                    NewInternalBook(coinbase_book, gemini_book, depth)
              /\ internal_order_book' = new_internal_book]_vars

\* The merger works on the Coinbase snapshot it read while the fetcher has
\* since published another one and the simulator's last book is a third
\* state of affairs.
C9_Witness ==
    /\ pc[Printer] = "build"
    /\ coinbase_book = CoinbaseA
    /\ coinbase_order_book = CoinbaseB
    /\ internal_order_book # NoneVal

\* Sums over the levels at the indices I, and over fills.
RECURSIVE SizeOfLevels(_, _)
SizeOfLevels(levels, I) ==
    IF I = {} THEN 0
    ELSE LET i == CHOOSE i \in I : TRUE
         IN  levels[i].size + SizeOfLevels(levels, I \ {i})

TotalSize(levels) == SizeOfLevels(levels, DOMAIN levels)

RECURSIVE SumOfFills(_, _)
SumOfFills(fills, field) ==
    IF fills = <<>> THEN 0
    ELSE Head(fills)[field] + SumOfFills(Tail(fills), field)

\* filledQty: the sizes taken; the fills' values.
FilledQty(fills) == SumOfFills(fills, 2)

FillsValue(fills) == SumOfFills(fills, 4)

Clamp(x, lo, hi) == IF x < lo THEN lo ELSE IF x > hi THEN hi ELSE x

\* The value of consuming quantity q best price first, written without a
\* sort or a walk: at each price p the amount taken is what is left of q
\* after all strictly better prices, at most the size offered at p.
StrictlyBetter(levels, p, buy) ==
    {i \in DOMAIN levels :
        IF buy THEN levels[i].price < p ELSE levels[i].price > p}

RECURSIVE BestFirstOver(_, _, _, _)
BestFirstOver(levels, q, buy, P) ==
    IF P = {} THEN 0
    ELSE LET p      == CHOOSE p \in P : TRUE
             better == SizeOfLevels(levels, StrictlyBetter(levels, p, buy))
             at     == SizeOfLevels(levels,
                           {i \in DOMAIN levels : levels[i].price = p})
         IN  p * Clamp(q - better, 0, at)
               + BestFirstOver(levels, q, buy, P \ {p})

BestFirstValue(levels, q, buy) ==
    BestFirstOver(levels, q, buy, {levels[i].price : i \in DOMAIN levels})

\* C10 (SpecSimulator): for a quantity q > 0 and a side of total size >= q
\* (asks for the buy, bids for the sell), the walk ends with nothing
\* remaining, the sizes taken add up to q, and the total is the value of
\* consuming q best price first across both venues, which is the sum of
\* the fills' values.
C10_FullFill ==
    (pc[Printer] = "print" /\ prices.quantity_btc > 0) =>
        /\ TotalSize(book.asks) >= prices.quantity_btc =>
              /\ prices.remaining_buy = 0
              /\ FilledQty(prices.buy_fills) = prices.quantity_btc
              /\ prices.cost_buy =
                    BestFirstValue(book.asks, prices.quantity_btc, TRUE)
              /\ prices.cost_buy = FillsValue(prices.buy_fills)
        /\ TotalSize(book.bids) >= prices.quantity_btc =>
              /\ prices.remaining_sell = 0
              /\ FilledQty(prices.sell_fills) = prices.quantity_btc
              /\ prices.revenue_sell =
                    BestFirstValue(book.bids, prices.quantity_btc, FALSE)
              /\ prices.revenue_sell = FillsValue(prices.sell_fills)

\* The scenario of two venues: Coinbase asks 1 @ 100 and 2 @ 101, Gemini
\* asks 1.5 @ 100.5, a buy of 2: fills 1 @ 100 and 1 @ 100.5, total 200.5
\* (802 quarters), nothing remaining.
C10_Witness ==
    /\ pc[Printer] = "print"
    /\ prices.quantity_btc = 4
    /\ book.asks = << [price |-> 200, size |-> 2, exchange |-> "coinbase"],
                      [price |-> 202, size |-> 4, exchange |-> "coinbase"],
                      [price |-> 201, size |-> 3, exchange |-> "gemini"] >>
    /\ prices.buy_fills = << <<"coinbase", 2, 200, 400>>,
                             <<"gemini", 2, 201, 402>> >>
    /\ prices.cost_buy = 802
    /\ prices.remaining_buy = 0

\* Whether the fills are exactly one fill per level, each taking the
\* level's full size at the level's price.
FullFillOf(level) ==
    <<level.exchange, level.size, level.price, level.size * level.price>>

OneFullFillPerLevel(fills, levels) ==
    /\ Len(fills) = Len(levels)
    /\ \A j \in DOMAIN levels :
          Cardinality({i \in DOMAIN fills : fills[i] = FullFillOf(levels[j])})
            = Cardinality({k \in DOMAIN levels : levels[k] = levels[j]})

\* C11 (SpecSimulator): for a quantity q > 0 and a side of total size less
\* than q, the call ends normally (it raises nothing and reaches its
\* report) with remaining = q - total size, the sizes taken adding up to
\* the total size, and exactly one fill per level, of the level's full
\* size.
C11_Shortfall ==
    /\ exception[Printer] = "none"
    /\ pc[Printer] # "dead"
    /\ (pc[Printer] = "print" /\ prices.quantity_btc > 0) =>
          /\ TotalSize(book.asks) < prices.quantity_btc =>
                /\ prices.remaining_buy =
                      prices.quantity_btc - TotalSize(book.asks)
                /\ FilledQty(prices.buy_fills) = TotalSize(book.asks)
                /\ OneFullFillPerLevel(prices.buy_fills, book.asks)
          /\ TotalSize(book.bids) < prices.quantity_btc =>
                /\ prices.remaining_sell =
                      prices.quantity_btc - TotalSize(book.bids)
                /\ FilledQty(prices.sell_fills) = TotalSize(book.bids)
                /\ OneFullFillPerLevel(prices.sell_fills, book.bids)

\* The scenario of two venues with a buy of 10: the asks total 4.5, the
\* three levels are taken whole for 452.75 (1811 quarters), 5.5 remains.
C11_Witness ==
    /\ pc[Printer] = "print"
    /\ prices.quantity_btc = DefaultQty
    /\ book.asks = << [price |-> 200, size |-> 2, exchange |-> "coinbase"],
                      [price |-> 202, size |-> 4, exchange |-> "coinbase"],
                      [price |-> 201, size |-> 3, exchange |-> "gemini"] >>
    /\ Len(prices.buy_fills) = 3
    /\ FilledQty(prices.buy_fills) = 9
    /\ prices.cost_buy = 1811
    /\ prices.remaining_buy = 11

Max(a, b) == IF a >= b THEN a ELSE b

\* C12 (SpecSimulator): for a quantity q <= 0, the buy and the sell both
\* end with no fill, nothing filled, a total of 0 and a remaining quantity
\* of max(q, 0), which is 0 and never negative.
C12_NonPositiveQuantity ==
    (pc[Printer] = "print" /\ prices.quantity_btc <= 0) =>
        /\ prices.buy_fills = <<>>
        /\ FilledQty(prices.buy_fills) = 0
        /\ prices.cost_buy = 0
        /\ prices.remaining_buy = Max(prices.quantity_btc, 0)
        /\ prices.sell_fills = <<>>
        /\ FilledQty(prices.sell_fills) = 0
        /\ prices.revenue_sell = 0
        /\ prices.remaining_sell = Max(prices.quantity_btc, 0)

\* The quantity still remaining before the walk's i-th step.
RemainingBefore(fills, q, i) == q - FilledQty(SubSeq(fills, 1, i - 1))

\* The i-th fill is taken from the i-th level walked; its size is between 0
\* and the level's size, and at most what remained before the step.
WalkStepsBounded(fills, levels, q) ==
    /\ Len(fills) <= Len(levels)
    /\ \A i \in DOMAIN fills :
          /\ fills[i][1] = levels[i].exchange
          /\ fills[i][3] = levels[i].price
          /\ 0 <= fills[i][2]
          /\ fills[i][2] <= levels[i].size
          /\ fills[i][2] <= RemainingBefore(fills, q, i)
          /\ RemainingBefore(fills, q, i + 1) >= 0

\* C13 (SpecSimulator): for a quantity q > 0, every step of the buy walk
\* and of the sell walk takes a size between 0 and the level's size and at
\* most the quantity remaining before the step; the remaining quantity is
\* q less the sizes taken and is never negative.
C13_TakeWithinLevel ==
    (pc[Printer] = "print" /\ prices.quantity_btc > 0) =>
        /\ WalkStepsBounded(prices.buy_fills, SortedAsks(book),
                            prices.quantity_btc)
        /\ prices.remaining_buy =
              prices.quantity_btc - FilledQty(prices.buy_fills)
        /\ prices.remaining_buy >= 0
        /\ WalkStepsBounded(prices.sell_fills, SortedBids(book),
                            prices.quantity_btc)
        /\ prices.remaining_sell =
              prices.quantity_btc - FilledQty(prices.sell_fills)
        /\ prices.remaining_sell >= 0

\* A buy walk with a level taken whole while more remained, and a last
\* level taken in part: the step was limited by the remaining quantity.
C13_Witness ==
    /\ pc[Printer] = "print"
    /\ prices.quantity_btc > 0
    /\ \E i, j \in DOMAIN prices.buy_fills :
          /\ i < j
          /\ prices.buy_fills[i][2] = SortedAsks(book)[i].size
          /\ prices.buy_fills[i][2] <
                RemainingBefore(prices.buy_fills, prices.quantity_btc, i)
          /\ prices.buy_fills[j][2] < SortedAsks(book)[j].size
          /\ prices.buy_fills[j][2] =
                RemainingBefore(prices.buy_fills, prices.quantity_btc, j)

\* How many levels of a venue's side the merge is to keep: the first
\* min(depth, available), all of them when depth is unset.
LevelsKept(snapshot, side) ==
    IF depth = <<>>
    THEN LevelsAvailable(snapshot, side)
    ELSE Min(depth[1], LevelsAvailable(snapshot, side))

\* C14 (SpecMerger): each side of the merged book about to be published is
\* the first min(depth, available) Coinbase levels of the snapshot read, in
\* the snapshot's order, followed by the first min(depth, available) Gemini
\* levels in the snapshot's order; each level carries its venue's tag and
\* the price and size the venue sent.  Nothing is sorted, dropped or
\* merged across venues.
C14_MergeIsConcatenation ==
    pc[Printer] = "publish" =>
        \A side \in {"bids", "asks"} :
            LET merged == new_internal_book[side]
                nA == LevelsKept(coinbase_book, side)
                nB == LevelsKept(gemini_book, side)
            IN  /\ Len(merged) = nA + nB
                /\ \A i \in 1..nA :
                      /\ i \in DOMAIN merged
                      /\ merged[i].exchange = "coinbase"
                      /\ merged[i].price = float(coinbase_book[side][i][1])
                      /\ merged[i].size = float(coinbase_book[side][i][2])
                /\ \A i \in 1..nB :
                      /\ nA + i \in DOMAIN merged
                      /\ merged[nA + i].exchange = "gemini"
                      /\ merged[nA + i].price =
                            float(gemini_book[side][i]["price"])
                      /\ merged[nA + i].size =
                            float(gemini_book[side][i]["amount"])

\* The sizes taken by the fills at the indices I.
RECURSIVE SizeOfFills(_, _)
SizeOfFills(fills, I) ==
    IF I = {} THEN 0
    ELSE LET i == CHOOSE i \in I : TRUE
         IN  fills[i][2] + SizeOfFills(fills, I \ {i})

\* Price p is at least as good as price r: lower for a buy, higher for a
\* sell.
NoWorse(p, r, buy) == IF buy THEN p <= r ELSE p >= r

\* The fills of one walk over the stored levels, for quantity q: prices
\* from best to worst; before a fill at price p, the fills at strictly
\* better prices have taken the whole size the levels offer at those
\* prices; a fill is made only while some quantity remains, and the walk
\* ends with nothing remaining or with a fill for every level.
BestPriceFirst(fills, levels, q, remaining, buy) ==
    /\ \A i, j \in DOMAIN fills :
          i < j => NoWorse(fills[i][3], fills[j][3], buy)
    /\ \A i \in DOMAIN fills :
          /\ SizeOfFills(fills,
                 {j \in 1..(i - 1) : fills[j][3] # fills[i][3]
                                     /\ NoWorse(fills[j][3], fills[i][3], buy)})
               = SizeOfLevels(levels, StrictlyBetter(levels, fills[i][3], buy))
          /\ RemainingBefore(fills, q, i) > 0
    /\ remaining > 0 => Len(fills) = Len(levels)
    /\ Len(fills) < Len(levels) => remaining <= 0

\* C15 (SpecSimulator): whatever the order of the stored merged book, the
\* buy's fill prices never decrease and the sell's never increase, a level
\* is filled only after all strictly better-priced levels of its side were
\* consumed whole, and each walk stops when nothing remains or the levels
\* are exhausted.
C15_BestPriceFirst ==
    pc[Printer] = "print" =>
        /\ BestPriceFirst(prices.buy_fills, book.asks, prices.quantity_btc,
                          prices.remaining_buy, TRUE)
        /\ BestPriceFirst(prices.sell_fills, book.bids, prices.quantity_btc,
                          prices.remaining_sell, FALSE)

\* A sell over bids stored out of price order (a lower bid first): the
\* best two bids are filled, best first, and the walk stops there with
\* nothing remaining and a level untouched.
C15_Witness ==
    /\ pc[Printer] = "print"
    /\ Len(book.bids) >= 3
    /\ book.bids[1].price < book.bids[2].price
    /\ Len(prices.sell_fills) = 2
    /\ prices.sell_fills[1][3] > prices.sell_fills[2][3]
    /\ prices.sell_fills[1][3] = book.bids[2].price
    /\ prices.remaining_sell = 0

\* C16 (Spec): no step of calculate_execution_prices changes the stored
\* merged book (its bids and asks keep their order and content), a venue
\* snapshot, or a rate limiter's state; from the read to the report, the
\* stored merged book is the book the call read.
C16_SimulatorChangesNothing ==
    [][/\ (\/ StepsFrom(Printer, "calc_lock")
           \/ StepsFrom(Printer, "calc_read")
           \/ StepsFrom(Printer, "calc")
           \/ StepsFrom(Printer, "print")) =>
              UNCHANGED <<store_vars, last_called, limiter_lock, allowed>>
       /\ (pc[Printer] = "calc" /\ pc'[Printer] = "print") =>
              /\ internal_order_book = book
              /\ internal_order_book' = book']_vars

\* The simulator has priced a merged book stored out of price order on
\* both sides (its sorted copies differ from the stored lists), with both
\* venue snapshots stored: the stored book is still in the stored order.
C16_Witness ==
    /\ pc[Printer] = "print"
    /\ internal_order_book = book
    /\ SortedAsks(book) # book.asks
    /\ SortedBids(book) # book.bids
    /\ coinbase_order_book # NoneVal
    /\ gemini_order_book # NoneVal

\* The data locks a thread holds.
DataLocksHeld(t) ==
    {l \in {"coinbase", "gemini", "internal"} :
        (IF l = "coinbase" THEN coinbase_lock
         ELSE IF l = "gemini" THEN gemini_lock ELSE internal_lock) = t}

\* The one data lock a thread holds at a position: a fetcher its venue's
\* for the assignment of the snapshot, the merger and simulator thread the
\* lock of the reference it is reading or replacing; none anywhere else.
DataLocksAt(t, p) ==
    IF t \in Fetchers /\ p = "store" THEN {VenueOf(t)}
    ELSE IF t = Printer /\ p = "read_coinbase" THEN {"coinbase"}
    ELSE IF t = Printer /\ p = "read_gemini" THEN {"gemini"}
    ELSE IF t = Printer /\ p \in {"publish", "calc_read"} THEN {"internal"}
    ELSE {}

\* C17 (Spec): every worker holds at most one data lock, and only at the
\* assignment of a snapshot or of the merged book (writers) or at the copy
\* of the current reference (readers): none while calling the limiter,
\* during the request, the combination of the snapshots, the walk or the
\* report, and none once its thread has ended.
C17_LocksOnlyForSwapOrRead ==
    \A t \in Threads :
        /\ Cardinality(DataLocksHeld(t)) <= 1
        /\ DataLocksHeld(t) = DataLocksAt(t, pc[t])

\* One fetcher is in its request and the merger is combining the snapshots
\* it read, neither holding a lock, while the other fetcher holds its
\* venue's lock for the assignment.
C17_Witness ==
    /\ pc["coinbase_worker"] = "get"
    /\ pc[Printer] = "build"
    /\ pc["gemini_worker"] = "store"
    /\ gemini_lock = "gemini_worker"
    /\ coinbase_lock = Free
    /\ internal_lock = Free
    /\ coinbase_book # NoneVal

\* The holder of the lock a thread waits for, Free when it waits for none.
AwaitedHolder(t) ==
    IF t \in Fetchers /\ pc[t] = "loop" THEN limiter_lock[VenueOf(t)]
    ELSE IF t \in Fetchers /\ pc[t] = "lock"
         THEN (IF VenueOf(t) = "coinbase" THEN coinbase_lock ELSE gemini_lock)
    ELSE IF t = Printer /\ pc[t] = "loop" THEN coinbase_lock
    ELSE IF t = Printer /\ pc[t] = "lock_gemini" THEN gemini_lock
    ELSE IF t = Printer /\ pc[t] \in {"lock_internal", "calc_lock"}
         THEN internal_lock
    ELSE Free

\* No running thread is stuck: it waits for no lock, or the lock it waits
\* for is held by a running thread that waits for none.
NothingBlocked ==
    \A t \in Fetchers \cup {Printer} :
        pc[t] # "dead" =>
            \/ AwaitedHolder(t) = Free
            \/ \E u \in Fetchers \cup {Printer} :
                  /\ AwaitedHolder(t) = u
                  /\ pc[u] # "dead"
                  /\ AwaitedHolder(u) = Free

BuildPositions ==
    {"read_coinbase", "lock_gemini", "read_gemini", "build",
     "lock_internal", "publish"}

CalcPositions == {"calc_lock", "calc_read", "calc", "print"}

\* C18 (SpecFair): no running thread is ever stuck behind a lock; every
\* iteration of the merger's loop, and every build_internal_order_book
\* under way, gets to its return, and every calculate_execution_prices
\* under way gets to its return, while the fetchers may stay in their
\* requests for ever.
C18_NothingBlocks ==
    /\ []NothingBlocked
    /\ (pc[Printer] \in {"loop"} \cup BuildPositions)
          ~> (pc[Printer] = "calc_lock")
    /\ (pc[Printer] \in CalcPositions) ~> (pc[Printer] = "loop")

\* The levels of a merged side that carry the venue's tag, in order.
VenuePart(levels, v) ==
    LET Tagged(level) == level.exchange = v
    IN  SelectSeq(levels, Tagged)

\* The snapshots a venue's fetcher can have published that a merge gets
\* through, and no snapshot.
Published(v) ==
    {NoneVal} \cup
    {x \in FetchPayloads(v) :
        IF v = "coinbase" THEN ValidCoinbaseBook(x) ELSE ValidGeminiBook(x)}

\* The venue's bids and its asks in the merged book b both come from the
\* snapshot x.
BothSidesFrom(b, v, x) ==
    \A side \in {"bids", "asks"} :
        VenuePart(b[side], v) =
            IF v = "coinbase" THEN CoinbaseSide(x, side, depth)
            ELSE GeminiSide(x, side, depth)

\* C19 (Spec): the merger reads each venue's stored snapshot once, and the
\* venue's bids and asks of the book it builds both come from that one
\* snapshot, whatever the venue's fetcher stores in the meantime; so in
\* every stored merged book each venue's bids and asks come from one
\* published snapshot of the venue.
C19_OneSnapshotPerVenue ==
    /\ [](/\ pc[Printer] \in {"lock_internal", "publish"} =>
                \A v \in Venues :
                    /\ SnapshotRead(v) \in Published(v)
                    /\ BothSidesFrom(new_internal_book, v, SnapshotRead(v))
          /\ internal_order_book # NoneVal =>
                \A v \in Venues : \E x \in Published(v) :
                    BothSidesFrom(internal_order_book, v, x))
    /\ [][/\ StepsFrom(Printer, "read_coinbase") =>
                coinbase_book' = coinbase_order_book
          /\ StepsFrom(Printer, "read_gemini") =>
                gemini_book' = gemini_order_book
          /\ \A p \in {"lock_gemini", "read_gemini", "build",
                       "lock_internal"} :
                StepsFrom(Printer, p) => coinbase_book' = coinbase_book
          /\ \A p \in {"build", "lock_internal"} :
                StepsFrom(Printer, p) => gemini_book' = gemini_book
          /\ StepsFrom(Printer, "publish") =>
                internal_order_book' = new_internal_book]_vars

\* The merged book about to be published has the bids and asks of the
\* Coinbase snapshot the merger read, while the Coinbase fetcher has
\* stored a newer snapshot during the merge.
C19_Witness ==
    /\ pc[Printer] = "publish"
    /\ coinbase_book = CoinbaseA
    /\ coinbase_order_book = CoinbaseB
    /\ gemini_book = GeminiA
    /\ BothSidesFrom(new_internal_book, "coinbase", CoinbaseA)
    /\ ~BothSidesFrom(new_internal_book, "coinbase", CoinbaseB)

\* C20 (Spec): printer_worker enters calculate_execution_prices only from
\* the return of the build that has just stored its merged book, and only
\* that store changes the stored merged book; so the simulator reads a
\* merged book that is there (never None or empty of keys, also when no
\* fetch has stored a snapshot), goes on to its walks and never to the
\* "not yet available" return, and prices the book stored by the build of
\* its iteration.
C20_SimulatorFindsItsBook ==
    /\ [](/\ pc[Printer] \in CalcPositions =>
                Truthy(internal_order_book)
          /\ pc[Printer] \in {"calc", "print"} =>
                /\ Truthy(book)
                /\ book = internal_order_book)
    /\ [][/\ (pc'[Printer] = "calc_lock" /\ pc[Printer] # "calc_lock") =>
                /\ StepsFrom(Printer, "publish")
                /\ internal_order_book' = new_internal_book
          /\ internal_order_book' # internal_order_book =>
                StepsFrom(Printer, "publish")
          /\ StepsFrom(Printer, "calc_read") =>
                book' = internal_order_book
          /\ StepsFrom(Printer, "calc") =>
                /\ pc'[Printer] = "print"
                /\ prices' = ExecutionPrices(internal_order_book,
                                             quantity_btc)]_vars

\* No fetch has stored a snapshot, and the simulator has priced the empty
\* merged book its iteration's build stored: no fill, totals 0.
C20_Witness ==
    /\ pc[Printer] = "print"
    /\ coinbase_order_book = NoneVal
    /\ gemini_order_book = NoneVal
    /\ book = [bids |-> <<>>, asks |-> <<>>]
    /\ internal_order_book = book
    /\ prices.buy_fills = <<>>
    /\ prices.cost_buy = 0
    /\ prices.remaining_buy = quantity_btc

=============================================================================
